---- MODULE Spec2Model ----
(***************************************************************************)
(* Model of src/app.py: the "Triggers & Triumphs" card generator.          *)
(* One browser session talks to the Flask route handlers; the in-memory    *)
(* USAGE map holds the free quota, and the payment processor (Stripe)      *)
(* holds checkout sessions and customers.  Strings that the code strips    *)
(* or lowercases are sequences of one-character strings, so that the       *)
(* conversions are computed and not assumed.                               *)
(***************************************************************************)
EXTENDS Integers, Sequences, FiniteSets, TLC

VARIABLES
    cfg,        \* the environment read at import time (lines 20-30)
    session,    \* the Flask session of the browser: a dict, keys may be absent
    USAGE,      \* { (key_id, day): count }, line 123
    today,      \* the server's calendar day, _today()
    checkouts,  \* processor: checkout sessions, in order of creation
    customers,  \* processor: customer records, by lowercased email
    last,       \* the request handled in the last step and its response
    granted,    \* history: a ground for Pro was seen since the last /logout
    gens,       \* history: (key, day) -> number of non-pro POST /generate
    inflight    \* /generate requests handled by concurrent workers: where each is

vars == <<cfg, session, USAGE, today, checkouts, customers, last, granted, gens, inflight>>

-----------------------------------------------------------------------------
(* Bounds of the model *)

MaxDaily == 1
MaxGenerate == 2
MaxDay == 2
MaxCheckouts == 2
MaxText == 4
MaxWorkers == 3

(* Program constants *)

PRO_SENTINEL == 9999

-----------------------------------------------------------------------------
(* Strings as sequences of characters *)

Upper == {"A", "B"}

IsSpace(c) == c = " "

LowerChar(c) == IF c = "A" THEN "a" ELSE IF c = "B" THEN "b" ELSE c

\* str.lower()
Lower(s) == [i \in 1..Len(s) |-> LowerChar(s[i])]

RECURSIVE LStrip(_)
LStrip(s) == IF s # <<>> /\ IsSpace(Head(s)) THEN LStrip(Tail(s)) ELSE s

RECURSIVE RStrip(_)
RStrip(s) ==
    IF s # <<>> /\ IsSpace(s[Len(s)]) THEN RStrip(SubSeq(s, 1, Len(s) - 1)) ELSE s

\* str.strip()
Strip(s) == RStrip(LStrip(s))

Max(a, b) == IF a >= b THEN a ELSE b

-----------------------------------------------------------------------------
(* Python dicts: functions whose domain is the set of present keys *)

Has(d, k) == k \in DOMAIN d

Get(d, k, default) == IF k \in DOMAIN d THEN d[k] ELSE default

Put(d, k, v) == [x \in DOMAIN d \cup {k} |-> IF x = k THEN v ELSE d[x]]

Pop(d, k) == [x \in DOMAIN d \ {k} |-> d[x]]

EmptyDict == [x \in {} |-> TRUE]

-----------------------------------------------------------------------------
(* Game config, line 39 *)

CATEGORIES == {"Trigger", "Coping", "Healing", "Wild"}

-----------------------------------------------------------------------------
(* Response parser, lines 99-118.  A completion text is a sequence of      *)
(* tokens: the code fence, the word json, an opening and a closing brace,  *)
(* a member <<key, value>> of a JSON object, or other text.                *)

FENCE == <<"fence">>
JSONWORD == <<"json">>
LBRACE == <<"{">>
RBRACE == <<"}">>
JUNK == <<"x">>

IsMember(t) == Len(t) = 2

\* re.sub of a fence (with its json word) at the start and of a fence at the
\* very end of the text.
StripFences(text) ==
    LET a == IF text # <<>> /\ Head(text) = FENCE
             THEN IF Len(text) >= 2 /\ text[2] = JSONWORD
                  THEN SubSeq(text, 3, Len(text))
                  ELSE Tail(text)
             ELSE text
    IN  IF a # <<>> /\ a[Len(a)] = FENCE THEN SubSeq(a, 1, Len(a) - 1) ELSE a

\* re.search of an opening brace, anything, a closing brace (greedy, DOTALL):
\* from the first opening brace to the last closing brace after it; <<>> when
\* there is no match.
BraceSpan(text) ==
    LET opens  == {i \in 1..Len(text) : text[i] = LBRACE}
        first  == CHOOSE i \in opens : \A j \in opens : i <= j
        closes == {i \in 1..Len(text) : text[i] = RBRACE /\ i > first}
        lastc  == CHOOSE i \in closes : \A j \in closes : j <= i
    IN  IF opens = {} \/ closes = {} THEN <<>> ELSE SubSeq(text, first, lastc)

\* json.loads succeeds on the span: an object whose content is members only.
Decodes(span) ==
    /\ Len(span) >= 2
    /\ \A i \in 2..(Len(span) - 1) : IsMember(span[i])

\* The decoded object: a later member of the same key wins.
Decoded(span) ==
    LET idx  == 2..(Len(span) - 1)
        keys == {span[i][1] : i \in idx}
        at(k) == CHOOSE i \in idx : span[i][1] = k /\ \A j \in idx : span[j][1] = k => j <= i
    IN  [k \in keys |-> span[at(k)][2]]

\* dict.setdefault
SetDefault(d, k, v) == IF k \in DOMAIN d THEN d ELSE Put(d, k, v)

ErrorCard(subtitle, body) ==
    [title |-> "Card Error", subtitle |-> subtitle, body |-> body,
     category |-> "Trigger", tags |-> <<"error">>]

\* Fault: parse_json_safe that returns the decoded object as it is.
parse_json_safe_NoDefaults(text) ==
    LET span == BraceSpan(StripFences(text))
    IN  IF span = <<>>
        THEN ErrorCard("Parsing issue", "We could not parse the AI response as JSON. Try again.")
        ELSE IF Decodes(span)
             THEN Decoded(span)
             ELSE ErrorCard("JSON decode failed", "The response was not valid JSON. Try again.")

parse_json_safe(text) ==
    LET span == BraceSpan(StripFences(text))
    IN  IF span = <<>>
        THEN ErrorCard("Parsing issue", "We could not parse the AI response as JSON. Try again.")
        ELSE IF Decodes(span)
             THEN SetDefault(SetDefault(SetDefault(SetDefault(SetDefault(
                      Decoded(span), "category", "Trigger"), "tags", <<>>),
                      "title", ""), "subtitle", ""), "body", "")
             ELSE ErrorCard("JSON decode failed", "The response was not valid JSON. Try again.")

\* call_openai, lines 75-97: the completion API either fails (the outcome
\* "raise": transport error or raise_for_status) or answers with a text.
call_openai(api) == parse_json_safe(api)

-----------------------------------------------------------------------------
(* Free quota, lines 120-156 *)

SessEmail(s) == Has(s, "email") /\ s["email"] # <<>>

SessPro(s) == Has(s, "pro") /\ s["pro"]

\* str.split(",")[0]
FirstField(h) ==
    LET commas == {i \in 1..Len(h) : h[i] = ","}
    IN  IF commas = {} THEN h
        ELSE SubSeq(h, 1, (CHOOSE i \in commas : \A j \in commas : i <= j) - 1)

\* request.headers.get("X-Forwarded-For", request.remote_addr or "0.0.0.0")
ClientHeader(req) ==
    IF req.has_xff THEN req.xff
    ELSE IF req.remote # <<>> THEN req.remote ELSE <<"0">>

usage_key(s, req) ==
    IF SessEmail(s)
    THEN <<"email:">> \o Lower(s["email"])
    ELSE <<"ip:">> \o Strip(FirstField(ClientHeader(req)))

\* Fault: uses_left without the clamp at zero.
uses_left_NoClamp(s, U, req, day, env) ==
    IF SessPro(s) THEN PRO_SENTINEL
    ELSE env.FREE_DAILY - Get(U, <<usage_key(s, req), day>>, 0)

uses_left(s, U, req, day, env) ==
    IF SessPro(s) THEN PRO_SENTINEL
    ELSE LET key  == usage_key(s, req)
             used == Get(U, <<key, day>>, 0)
         IN  Max(env.FREE_DAILY - used, 0)

\* Fault: mark_use that counts the use on the next day.
mark_use_OtherDay(s, U, req, day) ==
    IF SessPro(s) THEN U
    ELSE LET key == usage_key(s, req)
         IN  Put(U, <<key, day + 1>>, Get(U, <<key, day + 1>>, 0) + 1)

\* Fault: mark_use that counts the uses of a pro session too.
mark_use_CountsPro(s, U, req, day) ==
    LET key == usage_key(s, req)
    IN  Put(U, <<key, day>>, Get(U, <<key, day>>, 0) + 1)

\* Fault: mark_use that records nothing.
mark_use_Forgets(s, U, req, day) == U

mark_use(s, U, req, day) ==
    IF SessPro(s) THEN U
    ELSE LET key == usage_key(s, req)
         IN  Put(U, <<key, day>>, Get(U, <<key, day>>, 0) + 1)

-----------------------------------------------------------------------------
(* Payment processor.  A processor call either answers or raises; `fail`   *)
(* names the call that raises in this request ("none": no call raises).    *)
(* One customer per email: Customer.search(limit=1) sees at most one.      *)

NoFail == "none"

\* Fault: stripe_email_is_pro that treats a processor error as Pro.
stripe_email_is_pro_FailOpen(user_email, env, custs, fail) ==
    IF ~(env.STRIPE_SECRET_KEY /\ user_email # <<>>) THEN FALSE
    ELSE IF fail = "Customer.search" THEN TRUE
    ELSE IF ~Has(custs, user_email) THEN FALSE
    ELSE IF Get(custs[user_email].metadata, "lifetime_pro", "") = "true" THEN TRUE
    ELSE IF fail = "Subscription.list" THEN TRUE
    ELSE custs[user_email].subscription = "active"

\* Fault: stripe_email_is_pro that ignores the lifetime tag.
stripe_email_is_pro_SubscriptionOnly(user_email, env, custs, fail) ==
    IF ~(env.STRIPE_SECRET_KEY /\ user_email # <<>>) THEN FALSE
    ELSE IF fail = "Customer.search" THEN FALSE
    ELSE IF ~Has(custs, user_email) THEN FALSE
    ELSE IF fail = "Subscription.list" THEN FALSE
    ELSE custs[user_email].subscription = "active"

\* stripe_email_is_pro, lines 160-183
stripe_email_is_pro(user_email, env, custs, fail) ==
    IF ~(env.STRIPE_SECRET_KEY /\ user_email # <<>>) THEN FALSE
    ELSE IF fail = "Customer.search" THEN FALSE
    ELSE IF ~Has(custs, user_email) THEN FALSE
    ELSE IF Get(custs[user_email].metadata, "lifetime_pro", "") = "true" THEN TRUE
    ELSE IF fail = "Subscription.list" THEN FALSE
    ELSE custs[user_email].subscription = "active"

\* The processor calls stripe_email_is_pro makes before it returns.
EmailIsProCalls(user_email, env, custs, fail) ==
    IF ~(env.STRIPE_SECRET_KEY /\ user_email # <<>>) THEN <<>>
    ELSE IF fail = "Customer.search" \/ ~Has(custs, user_email) THEN <<"Customer.search">>
    ELSE IF Get(custs[user_email].metadata, "lifetime_pro", "") = "true"
         THEN <<"Customer.search">>
         ELSE <<"Customer.search", "Subscription.list">>

-----------------------------------------------------------------------------
(* Responses *)

Response(kind, target, remaining, flash, invoked, calls) ==
    [kind |-> kind, target |-> target, remaining |-> remaining, flash |-> flash,
     invoked |-> invoked, calls |-> calls]

\* render_template(...) with remaining=uses_left()
Render(template, remaining, flash) ==
    Response("render", template, remaining, flash, FALSE, <<>>)

\* redirect(url_for(...)) after an optional flash(...)
Redirect(target, flash, calls) ==
    Response("redirect", target, -1, flash, FALSE, calls)

\* What a handler leaves: the session, the usage map, the processor's records
\* and the response.
Outcome(s, U, chks, custs, resp) ==
    [session |-> s, USAGE |-> U, checkouts |-> chks, customers |-> custs, resp |-> resp]

-----------------------------------------------------------------------------
(* Routes, lines 187-367 *)

\* GET /.  The random "sid" the handler stores on a first visit is read by
\* no handler and is left out, like the flash messages the framework keeps.
home(s, U, chks, custs, req, day, env) ==
    Outcome(s, U, chks, custs, Render("index.html", uses_left(s, U, req, day, env), "none"))

NetworkErrorCard(category) ==
    [title |-> "Network Error", subtitle |-> "", body |-> "OpenAI request failed",
     category |-> category, tags |-> <<"error">>]

\* Fault: the gate of /generate lets a request through at zero remaining uses.
QuotaExhausted_OffByOne(s, U, req, day, env) ==
    uses_left(s, U, req, day, env) < 0 /\ ~SessPro(s)

\* The gate of /generate, line 199
QuotaExhausted(s, U, req, day, env) ==
    uses_left(s, U, req, day, env) <= 0 /\ ~SessPro(s)

\* POST /generate; api is the answer of the completion API to this request.
generate(s, U, chks, custs, req, day, env, api) ==
    IF QuotaExhausted(s, U, req, day, env)
    THEN Outcome(s, U, chks, custs, Redirect("upgrade", "quota", <<>>))
    ELSE LET category == IF req.category \in CATEGORIES THEN req.category ELSE "Trigger"
             card == IF api.ok THEN call_openai(api.text) ELSE NetworkErrorCard(category)
             U1   == mark_use(s, U, req, day)
             s1   == Put(s, "last_card", card)
         IN  Outcome(s1, U1, chks, custs,
                     Response("render", "index.html", uses_left(s1, U1, req, day, env),
                              "none", TRUE, <<>>))

\* Fault: /buy that keeps a pending_checkout_id the session already has.
buy_KeepsFirstPending(s, U, chks, custs, req, env, fail) ==
    IF env.STRIPE_SECRET_KEY /\ env.STRIPE_PRICE_ID
    THEN IF fail = "Price.retrieve"
         THEN Outcome(s, U, chks, custs,
                      Redirect("upgrade", "stripe_error", <<"Price.retrieve">>))
         ELSE IF fail = "Session.create"
         THEN Outcome(s, U, chks, custs,
                      Redirect("upgrade", "stripe_error", <<"Price.retrieve", "Session.create">>))
         ELSE LET chk == [mode |-> IF env.price_recurring THEN "subscription" ELSE "payment",
                          customer_email |-> Get(s, "email", <<>>),
                          payment_status |-> "unpaid",
                          customer |-> <<>>,
                          email |-> <<>>]
                  chks1 == Append(chks, chk)
                  s1 == IF Has(s, "pending_checkout_id") THEN s
                        ELSE Put(s, "pending_checkout_id", Len(chks1))
              IN  Outcome(s1, U, chks1, custs,
                          Redirect("stripe_checkout", "none",
                                   <<"Price.retrieve", "Session.create">>))
    ELSE IF env.STRIPE_LINK
         THEN Outcome(s, U, chks, custs, Redirect("stripe_link", "none", <<>>))
         ELSE Outcome(s, U, chks, custs, Redirect("upgrade", "not_configured", <<>>))

\* GET /buy
buy(s, U, chks, custs, req, env, fail) ==
    IF env.STRIPE_SECRET_KEY /\ env.STRIPE_PRICE_ID
    THEN IF fail = "Price.retrieve"
         THEN Outcome(s, U, chks, custs,
                      Redirect("upgrade", "stripe_error", <<"Price.retrieve">>))
         ELSE IF fail = "Session.create"
         THEN Outcome(s, U, chks, custs,
                      Redirect("upgrade", "stripe_error", <<"Price.retrieve", "Session.create">>))
         ELSE LET chk == [mode |-> IF env.price_recurring THEN "subscription" ELSE "payment",
                          customer_email |-> Get(s, "email", <<>>),
                          payment_status |-> "unpaid",
                          customer |-> <<>>,
                          email |-> <<>>]
                  chks1 == Append(chks, chk)
                  s1 == Put(s, "pending_checkout_id", Len(chks1))
              IN  Outcome(s1, U, chks1, custs,
                          Redirect("stripe_checkout", "none",
                                   <<"Price.retrieve", "Session.create">>))
    ELSE IF env.STRIPE_LINK
         THEN Outcome(s, U, chks, custs, Redirect("stripe_link", "none", <<>>))
         ELSE Outcome(s, U, chks, custs, Redirect("upgrade", "not_configured", <<>>))

\* Fault: /upgrade without the test that an admin code is configured.
upgrade_EmptyCodeMatches(s, U, chks, custs, req, day, env) ==
    IF req.method = "POST" /\ Strip(req.text) = env.ADMIN_PRO_CODE
    THEN Outcome(Put(Put(s, "_permanent", TRUE), "pro", TRUE), U, chks, custs,
                 Redirect("home", "pro_unlocked", <<>>))
    ELSE Outcome(s, U, chks, custs,
                 Render("upgrade.html", uses_left(s, U, req, day, env),
                        IF req.method = "POST" THEN "invalid_code" ELSE "none"))

\* GET and POST /upgrade
upgrade(s, U, chks, custs, req, day, env) ==
    IF req.method = "POST" /\ env.ADMIN_PRO_CODE # <<>> /\ Strip(req.text) = env.ADMIN_PRO_CODE
    THEN Outcome(Put(Put(s, "_permanent", TRUE), "pro", TRUE), U, chks, custs,
                 Redirect("home", "pro_unlocked", <<>>))
    ELSE Outcome(s, U, chks, custs,
                 Render("upgrade.html", uses_left(s, U, req, day, env),
                        IF req.method = "POST" THEN "invalid_code" ELSE "none"))

\* Fault: /pro without the same-device guard.
PendingMatches_Always(s, sid) == TRUE

\* The same-device guard, line 292: absent keys read as None.
PendingMatches(s, sid) == Get(s, "pending_checkout_id", 0) = sid

\* Fault: /pro without the comparison of the emails.
EmailMismatch_Never(s, chk) == FALSE

\* Lines 307-309: the session has an email, the checkout has one, and they
\* differ after lowercasing.  chk.email = <<>> stands for a checkout without
\* customer_details or without an email in them.
EmailMismatch(s, chk) ==
    SessEmail(s) /\ Lower(chk.email) # <<>> /\ Lower(s["email"]) # Lower(chk.email)

\* GET /pro; req.sid = 0 stands for a missing session_id.
pro(s, U, chks, custs, req, env, fail) ==
    LET sid == req.sid
    IN
    IF sid = 0 \/ ~env.STRIPE_SECRET_KEY
    THEN Outcome(s, U, chks, custs, Redirect("upgrade", "invalid_access", <<>>))
    ELSE IF ~PendingMatches(s, sid)
    THEN Outcome(s, U, chks, custs, Redirect("upgrade", "other_device", <<>>))
    ELSE IF fail = "Session.retrieve" \/ sid \notin 1..Len(chks)
    THEN Outcome(s, U, chks, custs,
                 Redirect("upgrade", "verification_failed", <<"Session.retrieve">>))
    ELSE
    LET chk == chks[sid]
        s1  == Put(Put(s, "_permanent", TRUE), "pro", TRUE)
        tag == chk.mode = "payment" /\ chk.customer # <<>>
        custs1 == IF tag
                  THEN [custs EXCEPT ![chk.customer].metadata = Put(@, "lifetime_pro", "true")]
                  ELSE custs
        s2  == IF chk.email # <<>> THEN Put(s1, "email", Lower(chk.email)) ELSE s1
        s3  == Pop(s2, "pending_checkout_id")
    IN
    IF chk.payment_status # "paid"
    THEN Outcome(s, U, chks, custs,
                 Redirect("upgrade", "not_completed", <<"Session.retrieve">>))
    ELSE IF EmailMismatch(s, chk)
    THEN Outcome(s, U, chks, custs,
                 Redirect("login", "different_email", <<"Session.retrieve">>))
    ELSE IF tag /\ (fail = "Customer.retrieve" \/ ~Has(custs, chk.customer))
    THEN Outcome(s1, U, chks, custs,
                 Redirect("upgrade", "verification_failed",
                          <<"Session.retrieve", "Customer.retrieve">>))
    ELSE IF tag /\ fail = "Customer.modify"
    THEN Outcome(s1, U, chks, custs,
                 Redirect("upgrade", "verification_failed",
                          <<"Session.retrieve", "Customer.retrieve", "Customer.modify">>))
    ELSE Outcome(s3, U, chks, custs1,
                 Redirect("home", "thanks",
                          IF tag
                          THEN <<"Session.retrieve", "Customer.retrieve", "Customer.modify">>
                          ELSE <<"Session.retrieve">>))

\* Fault: /login that takes Pro away when the email is not recognised.
login_Revalidates(s, U, chks, custs, req, env, fail) ==
    IF req.method # "POST"
    THEN Outcome(s, U, chks, custs, Render("login.html", -1, "none"))
    ELSE LET email == Lower(Strip(req.text))
             s1 == Put(Put(s, "_permanent", TRUE), "email", email)
             calls == EmailIsProCalls(email, env, custs, fail)
         IN  IF email = <<>>
             THEN Outcome(s, U, chks, custs, Redirect("login", "invalid_email", <<>>))
             ELSE IF stripe_email_is_pro(email, env, custs, fail)
             THEN Outcome(Put(s1, "pro", TRUE), U, chks, custs,
                          Redirect("home", "welcome_back", calls))
             ELSE Outcome(Pop(s1, "pro"), U, chks, custs, Redirect("home", "signed_in", calls))

\* GET and POST /login
login(s, U, chks, custs, req, env, fail) ==
    IF req.method # "POST"
    THEN Outcome(s, U, chks, custs, Render("login.html", -1, "none"))
    ELSE LET email == Lower(Strip(req.text))
             s1 == Put(Put(s, "_permanent", TRUE), "email", email)
             calls == EmailIsProCalls(email, env, custs, fail)
         IN  IF email = <<>>
             THEN Outcome(s, U, chks, custs, Redirect("login", "invalid_email", <<>>))
             ELSE IF stripe_email_is_pro(email, env, custs, fail)
             THEN Outcome(Put(s1, "pro", TRUE), U, chks, custs,
                          Redirect("home", "welcome_back", calls))
             ELSE Outcome(s1, U, chks, custs, Redirect("home", "signed_in", calls))

\* Fault: logout that drops the other fields and keeps the email.
logout_KeepsEmail(s, U, chks, custs) ==
    Outcome(Pop(Pop(Pop(s, "pro"), "last_card"), "pending_checkout_id"), U, chks, custs,
            Redirect("home", "signed_out", <<>>))

\* GET /logout
logout(s, U, chks, custs) ==
    Outcome(EmptyDict, U, chks, custs, Redirect("home", "signed_out", <<>>))

\* GET /health
health(s, U, chks, custs) ==
    Outcome(s, U, chks, custs, Response("text", "ok", -1, "none", FALSE, <<>>))

-----------------------------------------------------------------------------
(* Inputs *)

\* How a request reaches the server: directly from address 7, or through a
\* proxy at address 9 whose X-Forwarded-For header names address 8 first.
NetDirect == [has_xff |-> FALSE, xff |-> <<>>, remote |-> <<"7">>]
NetProxy  == [has_xff |-> TRUE, xff |-> <<" ", "8", ",", " ", "9">>, remote |-> <<"9">>]

Nets == {NetDirect, NetProxy}

Request(route, method, net, category, text, sid, fail) ==
    [route |-> route, method |-> method, has_xff |-> net.has_xff, xff |-> net.xff,
     remote |-> net.remote, category |-> category, text |-> text, sid |-> sid,
     fail |-> fail]

Reached(fail, calls) == \E i \in 1..Len(calls) : calls[i] = fail

FormCategories == {"Bogus"}

FullCardText ==
    <<FENCE, JSONWORD, LBRACE, <<"title", "T">>, <<"subtitle", "S">>, <<"body", "B">>,
      <<"category", "Healing">>, <<"tags", <<"t1", "t2">>>>, RBRACE, FENCE>>

ApiAnswers ==
    {[ok |-> FALSE, text |-> <<>>],
     [ok |-> TRUE, text |-> FullCardText]}

AdminCodes == {<<>>, <<"s">>}

FormCodes == {<<>>, <<" ", "s", " ">>}

FormEmails == {<<" ">>, <<" ", "A", " ">>, <<"b">>}

PayEmails == {<<"A">>}

OtherEmail == <<"b">>

BuyFails == {NoFail, "Price.retrieve", "Session.create"}

ProFails == {NoFail, "Session.retrieve", "Customer.retrieve", "Customer.modify"}

LoginFails == {NoFail, "Customer.search", "Subscription.list"}

Config(daily, key, price, link, code, recurring) ==
    [FREE_DAILY |-> daily, STRIPE_SECRET_KEY |-> key, STRIPE_PRICE_ID |-> price,
     STRIPE_LINK |-> link, ADMIN_PRO_CODE |-> code, price_recurring |-> recurring]

Customer(lifetime, subscription) ==
    [metadata |-> IF lifetime THEN [k \in {"lifetime_pro"} |-> "true"] ELSE EmptyDict,
     subscription |-> subscription]

-----------------------------------------------------------------------------
(* History *)

RECURSIVE SumOver(_, _)
SumOver(d, keys) ==
    IF keys = {} THEN 0
    ELSE LET k == CHOOSE x \in keys : TRUE IN d[k] + SumOver(d, keys \ {k})

Total(d) == SumOver(d, DOMAIN d)

\* (a) the posted code equals a non-empty configured admin code
GroundAdmin(req, env) ==
    req.method = "POST" /\ env.ADMIN_PRO_CODE # <<>> /\ Strip(req.text) = env.ADMIN_PRO_CODE

\* (b) session_id equals the stored pending_checkout_id and the processor
\* reported that checkout paid
GroundCheckout(s, chks, req, fail) ==
    /\ req.sid # 0
    /\ Has(s, "pending_checkout_id")
    /\ s["pending_checkout_id"] = req.sid
    /\ fail # "Session.retrieve"
    /\ req.sid \in 1..Len(chks)
    /\ chks[req.sid].payment_status = "paid"

\* (c) the processor reported a lifetime customer or an active subscription
\* for the posted email
GroundLogin(custs, req, env, fail) ==
    LET e == Lower(Strip(req.text))
    IN  /\ req.method = "POST"
        /\ env.STRIPE_SECRET_KEY
        /\ fail # "Customer.search"
        /\ Has(custs, e)
        /\ \/ Has(custs[e].metadata, "lifetime_pro")
           \/ fail # "Subscription.list" /\ custs[e].subscription = "active"

-----------------------------------------------------------------------------
(* The state machine *)

NoRequest == Request("none", "GET", NetDirect, "", <<>>, 0, NoFail)

\* The log when the last step was not a request.
Idle == [req |-> NoRequest, resp |-> Response("none", "none", -1, "none", FALSE, <<>>)]

\* The state after import: an empty usage map and no session yet.  The
\* processor keeps its records across restarts of the server.
Start(configs, processor) ==
    /\ cfg \in configs
    /\ session = EmptyDict
    /\ USAGE = EmptyDict
    /\ today = 1
    /\ checkouts = <<>>
    /\ customers \in processor
    /\ last = Idle
    /\ granted = FALSE
    /\ gens = EmptyDict
    /\ inflight = <<>>

\* A handler's outcome becomes the next state.  The log keeps the request
\* without its category, and its failing call only if the handler reached it.
Handled(req, out) ==
    /\ session' = out.session
    /\ USAGE' = out.USAGE
    /\ checkouts' = out.checkouts
    /\ customers' = out.customers
    /\ last' = [req |-> [req EXCEPT !.category = "",
                                     !.fail = IF Reached(@, out.resp.calls) THEN @ ELSE NoFail],
                resp |-> out.resp]
    /\ UNCHANGED <<cfg, today, inflight>>

Home ==
    \E net \in Nets :
        LET req == Request("home", "GET", net, "", <<>>, 0, NoFail)
        IN  /\ Handled(req, home(session, USAGE, checkouts, customers, req, today, cfg))
            /\ UNCHANGED <<granted, gens>>

\* POST /generate arriving by one of nets
GenerateFrom(nets) ==
    \E net \in nets, category \in FormCategories, api \in ApiAnswers :
        LET req == Request("generate", "POST", net, category, <<>>, 0, NoFail)
            k == <<usage_key(session, req), today>>
        IN  /\ SessPro(session) \/ Total(gens) < MaxGenerate
            /\ Handled(req, generate(session, USAGE, checkouts, customers, req, today, cfg, api))
            /\ gens' = IF SessPro(session) THEN gens ELSE Put(gens, k, Get(gens, k, 0) + 1)
            /\ UNCHANGED granted

Generate == GenerateFrom(Nets)

Buy ==
    \E fail \in BuyFails :
        LET req == Request("buy", "GET", NetDirect, "", <<>>, 0, fail)
        IN  /\ Len(checkouts) < MaxCheckouts
            /\ Handled(req, buy(session, USAGE, checkouts, customers, req, cfg, fail))
            /\ UNCHANGED <<granted, gens>>

Upgrade ==
    \E method \in {"GET", "POST"}, code \in FormCodes :
        LET req == Request("upgrade", method, NetDirect, "",
                           IF method = "POST" THEN code ELSE <<>>, 0, NoFail)
        IN  /\ Handled(req, upgrade(session, USAGE, checkouts, customers, req, today, cfg))
            /\ granted' = (granted \/ GroundAdmin(req, cfg))
            /\ UNCHANGED gens

Pro ==
    \E sid \in 0..MaxCheckouts, fail \in ProFails :
        LET req == Request("pro", "GET", NetDirect, "", <<>>, sid, fail)
        IN  /\ Handled(req, pro(session, USAGE, checkouts, customers, req, cfg, fail))
            /\ granted' = (granted \/ GroundCheckout(session, checkouts, req, fail))
            /\ UNCHANGED gens

Login ==
    \E method \in {"GET", "POST"}, email \in FormEmails, fail \in LoginFails :
        LET req == Request("login", method, NetDirect, "",
                           IF method = "POST" THEN email ELSE <<>>, 0, fail)
        IN  /\ Handled(req, login(session, USAGE, checkouts, customers, req, cfg, fail))
            /\ granted' = (granted \/ GroundLogin(customers, req, cfg, fail))
            /\ UNCHANGED gens

Logout ==
    LET req == Request("logout", "GET", NetDirect, "", <<>>, 0, NoFail)
    IN  /\ Handled(req, logout(session, USAGE, checkouts, customers))
        /\ granted' = FALSE
        /\ UNCHANGED gens

Health ==
    LET req == Request("health", "GET", NetDirect, "", <<>>, 0, NoFail)
    IN  /\ Handled(req, health(session, USAGE, checkouts, customers))
        /\ UNCHANGED <<granted, gens>>

(* The world outside the server *)

\* The server's calendar day advances.
NextDay ==
    /\ today < MaxDay
    /\ today' = today + 1
    /\ last' = Idle
    /\ UNCHANGED <<cfg, session, USAGE, checkouts, customers, granted, gens, inflight>>

\* What the processor records when checkout chk is paid with this email.  A
\* subscription always has a customer; a one-time payment has one only if
\* the processor makes one.
Paid(chk, email, with_customer) ==
    [chk EXCEPT !.payment_status = "paid", !.email = email,
                !.customer = IF chk.mode = "subscription" \/ with_customer
                             THEN Lower(email) ELSE <<>>]

Billed(custs, chk) ==
    IF chk.customer = <<>> THEN custs
    ELSE LET old == Get(custs, chk.customer, Customer(FALSE, "none"))
         IN  Put(custs, chk.customer,
                 IF chk.mode = "subscription"
                 THEN [old EXCEPT !.subscription = "active"]
                 ELSE old)

\* The checkout the session started is paid on the processor's hosted page,
\* with the prefilled email if there is one.
Pay ==
    \E i \in 1..Len(checkouts), typed \in PayEmails, with_customer \in BOOLEAN :
        LET chk  == checkouts[i]
            paid == Paid(chk, IF chk.customer_email # <<>> THEN chk.customer_email ELSE typed,
                         with_customer)
        IN  /\ chk.payment_status = "unpaid"
            /\ chk.mode = "payment" \/ with_customer
            /\ checkouts' = [checkouts EXCEPT ![i] = paid]
            /\ customers' = Billed(customers, paid)
            /\ last' = Idle
            /\ UNCHANGED <<cfg, session, USAGE, today, granted, gens, inflight>>

\* Somebody else buys with the same processor account, in another browser,
\* and becomes a customer.
OtherCheckout ==
    LET paid == Paid([mode |-> IF cfg.price_recurring THEN "subscription" ELSE "payment",
                      customer_email |-> <<>>, payment_status |-> "unpaid",
                      customer |-> <<>>, email |-> <<>>],
                     OtherEmail, TRUE)
    IN  /\ cfg.STRIPE_SECRET_KEY /\ cfg.STRIPE_PRICE_ID
        /\ Len(checkouts) < MaxCheckouts
        /\ checkouts' = Append(checkouts, paid)
        /\ customers' = Billed(customers, paid)
        /\ last' = Idle
        /\ UNCHANGED <<cfg, session, USAGE, today, granted, gens, inflight>>

\* A subscription ends at the processor.
CancelSubscription ==
    \E e \in DOMAIN customers :
        /\ customers[e].subscription = "active"
        /\ customers' = [customers EXCEPT ![e].subscription = "canceled"]
        /\ last' = Idle
        /\ UNCHANGED <<cfg, session, USAGE, today, checkouts, granted, gens, inflight>>

-----------------------------------------------------------------------------
(* Spec: the quota machine.  The routes that read or write the usage map,  *)
(* with sign-in against a processor that already knows some customers.     *)

QuotaConfigs ==
    {Config(d, TRUE, FALSE, FALSE, <<"s">>, FALSE) : d \in (0 - 1)..MaxDaily}

\* The processor knows a subscriber and a lifetime buyer.
QuotaProcessor ==
    {[e \in {<<"a">>, <<"b">>} |->
         IF e = <<"a">> THEN Customer(FALSE, "active") ELSE Customer(TRUE, "none")]}

Init == Start(QuotaConfigs, QuotaProcessor)

Next ==
    \/ Home
    \/ Generate
    \/ Upgrade
    \/ Login
    \/ Logout
    \/ Health
    \/ NextDay

Spec == Init /\ [][Next]_vars

-----------------------------------------------------------------------------
(* SpecFree: the quota machine for a browser that stays on the free tier:  *)
(* no admin code is configured, the processor knows no customer, and every *)
(* request comes from the one address 7.                                   *)

FreeConfigs ==
    {Config(d, TRUE, FALSE, FALSE, <<>>, FALSE) : d \in 0..MaxDaily}

FreeProcessor == {EmptyDict}

InitFree == Start(FreeConfigs, FreeProcessor)

NextFree ==
    \/ GenerateFrom({NetDirect})
    \/ Login
    \/ Logout
    \/ NextDay

SpecFree == InitFree /\ [][NextFree]_vars

-----------------------------------------------------------------------------
(* SpecPay: the payment machine.  The routes of the upgrade flow and the   *)
(* processor's side of it; the usage map stays as it is.                   *)

PayConfigs ==
    {Config(MaxDaily, TRUE, TRUE, FALSE, <<>>, FALSE),
     Config(MaxDaily, TRUE, TRUE, FALSE, <<>>, TRUE),
     Config(MaxDaily, FALSE, TRUE, TRUE, <<"s">>, FALSE),
     Config(MaxDaily, TRUE, FALSE, FALSE, <<>>, FALSE)}

PayProcessor == {EmptyDict}

InitPay == Start(PayConfigs, PayProcessor)

NextPay ==
    \/ Home
    \/ Buy
    \/ Upgrade
    \/ Pro
    \/ Login
    \/ Logout
    \/ Health
    \/ OtherCheckout
    \/ Pay
    \/ CancelSubscription

SpecPay == InitPay /\ [][NextPay]_vars

-----------------------------------------------------------------------------
(* SpecUnit: the quota functions, and /generate that calls them, called    *)
(* from any session and any usage map, also one that concurrent requests   *)
(* pushed past the limit.                                                  *)

UnitSessions ==
    {EmptyDict,
     Put(Put(EmptyDict, "_permanent", TRUE), "email", <<"a">>),
     Put(Put(EmptyDict, "_permanent", TRUE), "pro", TRUE),
     Put(Put(Put(EmptyDict, "_permanent", TRUE), "email", <<"a">>), "pro", TRUE)}

UnitKeys == {<<<<"ip:", "7">>, 1>>, <<<<"email:", "a">>, 1>>, <<<<"ip:", "7">>, MaxDay>>}

UnitUsage == UNION {[K -> 1..(MaxDaily + 1)] : K \in SUBSET UnitKeys}

InitUnit ==
    /\ cfg \in QuotaConfigs
    /\ session \in UnitSessions
    /\ USAGE \in UnitUsage
    /\ today \in 1..MaxDay
    /\ checkouts = <<>>
    /\ customers = EmptyDict
    /\ last = Idle
    /\ granted = SessPro(session)
    /\ gens = EmptyDict
    /\ inflight = <<>>

\* r = uses_left()
CallUsesLeft ==
    \E net \in Nets :
        LET req == Request("uses_left", "CALL", net, "", <<>>, 0, NoFail)
        IN  /\ last' = [req |-> req,
                        resp |-> Response("value", "uses_left",
                                          uses_left(session, USAGE, req, today, cfg),
                                          "none", FALSE, <<>>)]
            /\ UNCHANGED <<cfg, session, USAGE, today, checkouts, customers, granted, gens, inflight>>

\* mark_use(); r = uses_left()
CallMarkUse ==
    \E net \in Nets :
        LET req == Request("mark_use", "CALL", net, "", <<>>, 0, NoFail)
            U1  == mark_use(session, USAGE, req, today)
        IN  /\ Get(USAGE, <<usage_key(session, req), today>>, 0) <= MaxDaily + 1
            /\ USAGE' = U1
            /\ last' = [req |-> req,
                        resp |-> Response("value", "uses_left",
                                          uses_left(session, U1, req, today, cfg),
                                          "none", FALSE, <<>>)]
            /\ UNCHANGED <<cfg, session, today, checkouts, customers, granted, gens, inflight>>

\* POST /generate from the drawn state
CallGenerate ==
    \E net \in Nets, api \in ApiAnswers :
        LET req == Request("generate", "POST", net, "Trigger", <<>>, 0, NoFail)
        IN  /\ Get(USAGE, <<usage_key(session, req), today>>, 0) <= MaxDaily + 1
            /\ Handled(req, generate(session, USAGE, checkouts, customers, req, today, cfg, api))
            /\ UNCHANGED <<granted, gens>>

NextUnit ==
    \/ CallUsesLeft
    \/ CallMarkUse
    \/ CallGenerate

SpecUnit == InitUnit /\ [][NextUnit]_vars

-----------------------------------------------------------------------------
(* SpecParse: parse_json_safe called on its own, on every completion text  *)
(* of up to MaxText tokens.  The text waits in the log as the argument of  *)
(* the call; the card it returns is kept where /generate keeps it.         *)

ParseTokens ==
    {FENCE, JSONWORD, LBRACE, RBRACE, JUNK,
     <<"title", "T">>, <<"title", "U">>, <<"category", "Wild">>, <<"tags", <<"t">>>>,
     <<"extra", "E">>}

ParseTexts == UNION {[1..n -> ParseTokens] : n \in 0..MaxText}

InitParse ==
    /\ cfg = Config(MaxDaily, FALSE, FALSE, FALSE, <<>>, FALSE)
    /\ session = EmptyDict
    /\ USAGE = EmptyDict
    /\ today = 1
    /\ checkouts = <<>>
    /\ customers = EmptyDict
    /\ \E text \in ParseTexts :
           last = [req |-> Request("parse_json_safe", "CALL", NetDirect, "", text, 0, NoFail),
                   resp |-> Idle.resp]
    /\ granted = FALSE
    /\ gens = EmptyDict
    /\ inflight = <<>>

\* card = parse_json_safe(text)
CallParse ==
    /\ last.req.route = "parse_json_safe"
    /\ last.resp.kind = "none"
    /\ session' = Put(session, "last_card", parse_json_safe(last.req.text))
    /\ last' = [last EXCEPT !.resp = Response("value", "card", -1, "none", FALSE, <<>>)]
    /\ UNCHANGED <<cfg, USAGE, today, checkouts, customers, granted, gens, inflight>>

NextParse == CallParse

SpecParse == InitParse /\ [][NextParse]_vars

-----------------------------------------------------------------------------
(* SpecRace: MaxWorkers workers of one server process each handle a POST   *)
(* /generate of the same anonymous browser on one day.  They share USAGE;  *)
(* a step is the gate (line 199), the completion call (lines 209-213), the *)
(* read of the count in mark_use or the write of the count plus one (line  *)
(* 156).  Each request carries its own copy of the session cookie.         *)

Workers == 1..MaxWorkers

RaceRequest == Request("generate", "POST", NetDirect, "Trigger", <<>>, 0, NoFail)

InitRace ==
    /\ cfg \in QuotaConfigs
    /\ session = EmptyDict
    /\ USAGE = EmptyDict
    /\ today = 1
    /\ checkouts = <<>>
    /\ customers = EmptyDict
    /\ last = Idle
    /\ granted = FALSE
    /\ gens = EmptyDict
    /\ inflight = [w \in Workers |-> [pc |-> "gate", read |-> 0]]

WorkerStep(w, pc, read) ==
    /\ inflight' = [inflight EXCEPT ![w] = [pc |-> pc, read |-> read]]
    /\ UNCHANGED <<cfg, session, today, checkouts, customers, last, granted, gens>>

\* line 199: uses_left() <= 0 and not session.get("pro")
WorkerGate(w) ==
    /\ inflight[w].pc = "gate"
    /\ WorkerStep(w, IF QuotaExhausted(session, USAGE, RaceRequest, today, cfg)
                     THEN "redirected" ELSE "call", 0)
    /\ UNCHANGED USAGE

\* lines 209-213: the completion client is called; it answers or raises
WorkerCall(w) ==
    /\ inflight[w].pc = "call"
    /\ WorkerStep(w, "read", 0)
    /\ UNCHANGED USAGE

\* line 156, right-hand side: USAGE.get((key, today), 0)
WorkerRead(w) ==
    /\ inflight[w].pc = "read"
    /\ ~SessPro(session)
    /\ WorkerStep(w, "write", Get(USAGE, <<usage_key(session, RaceRequest), today>>, 0))
    /\ UNCHANGED USAGE

\* line 156, the assignment; then the card is rendered
WorkerWrite(w) ==
    /\ inflight[w].pc = "write"
    /\ USAGE' = Put(USAGE, <<usage_key(session, RaceRequest), today>>, inflight[w].read + 1)
    /\ WorkerStep(w, "done", inflight[w].read)

NextRace ==
    \E w \in Workers :
        \/ WorkerGate(w)
        \/ WorkerCall(w)
        \/ WorkerRead(w)
        \/ WorkerWrite(w)

SpecRace == InitRace /\ [][NextRace]_vars

-----------------------------------------------------------------------------
(* Properties.  A step whose log last' names a route is the handling of    *)
(* that request from the unprimed state.                                   *)

Route(l, route, method) == l.req.route = route /\ l.req.method = method

\* C1: the session's pro flag is true only if, since the last /logout, an
\* admin code matched, or GET /pro carried the stored pending_checkout_id of
\* a checkout reported paid, or POST /login named an email the processor
\* reported lifetime or actively subscribed; and only POST /upgrade, GET /pro
\* and POST /login ever turn pro on.
C1_ProOnlyOnGrounds ==
    [][/\ SessPro(session') => granted'
       /\ SessPro(session') /\ ~SessPro(session) =>
              \/ Route(last', "upgrade", "POST")
              \/ Route(last', "pro", "GET")
              \/ Route(last', "login", "POST")]_vars

\* Pro was just granted by a verified checkout.
C1_Witness ==
    /\ SessPro(session)
    /\ Route(last, "pro", "GET")
    /\ last.resp.target = "home"

\* Key k is present in both dicts with one value, or absent from both.
Same(d, e, k) == (Has(d, k) <=> Has(e, k)) /\ (Has(d, k) => d[k] = e[k])

\* C2: a /buy or /pro request during which a processor call raises leaves
\* the pro flag as it was and answers with a redirect to /upgrade or /login.
C2_ProcessorFailureKeepsPro ==
    [][last'.req.route \in {"buy", "pro"} /\ last'.req.fail # NoFail =>
           /\ SessPro(session') = SessPro(session)
           /\ last'.resp.kind = "redirect"
           /\ last'.resp.target \in {"upgrade", "login"}]_vars

\* C3: GET /pro with a missing session_id, or one that differs from the
\* stored pending_checkout_id (or none is stored), redirects to /upgrade
\* without a call to the processor and leaves pro, email and
\* pending_checkout_id as they were.
C3_OtherDeviceRejected ==
    [][/\ Route(last', "pro", "GET")
       /\ \/ last'.req.sid = 0
          \/ ~Has(session, "pending_checkout_id")
          \/ session["pending_checkout_id"] # last'.req.sid
       => /\ last'.resp.kind = "redirect"
          /\ last'.resp.target = "upgrade"
          /\ last'.resp.calls = <<>>
          /\ SessPro(session') = SessPro(session)
          /\ Same(session, session', "pro")
          /\ Same(session, session', "email")
          /\ Same(session, session', "pending_checkout_id")]_vars

\* A session that is not pro and waits for its own checkout was refused the
\* id of a checkout that somebody else paid.
C3_Witness ==
    /\ Route(last, "pro", "GET")
    /\ last.req.sid \in 1..Len(checkouts)
    /\ checkouts[last.req.sid].payment_status = "paid"
    /\ Has(session, "pending_checkout_id")
    /\ session["pending_checkout_id"] # last.req.sid
    /\ ~SessPro(session)
    /\ last.resp.target = "upgrade"

\* The count the usage map holds for the identity of request req today.
UsedToday(s, U, req, day) ==
    LET k == <<usage_key(s, req), day>> IN IF k \in DOMAIN U THEN U[k] ELSE 0

\* C4: POST /generate from a session that is not pro, whose identity has no
\* uses left today, redirects to /upgrade without a call to the completion
\* client and leaves the usage map and last_card as they were; the
\* completion client is called only if uses were left or the session is pro.
C4_GateBeforeCompletion ==
    [][Route(last', "generate", "POST") =>
           LET left == cfg.FREE_DAILY - UsedToday(session, USAGE, last'.req, today)
           IN  /\ ~SessPro(session) /\ left <= 0 =>
                      /\ last'.resp.kind = "redirect"
                      /\ last'.resp.target = "upgrade"
                      /\ ~last'.resp.invoked
                      /\ USAGE' = USAGE
                      /\ Same(session, session', "last_card")
               /\ last'.resp.invoked => SessPro(session) \/ left > 0]_vars

\* A session that used up its allowance and kept its card was sent to
\* /upgrade.
C4_Witness ==
    /\ Route(last, "generate", "POST")
    /\ last.resp.target = "upgrade"
    /\ ~SessPro(session)
    /\ Has(session, "last_card")
    /\ UsedToday(session, USAGE, last.req, today) >= 1

\* C5: with daily limit L, of the /generate requests of sessions that are
\* not pro, handled one at a time for one identity on one day, the first L
\* call the completion client and render a card, and every later one is
\* redirected to /upgrade.
C5_FirstLServed ==
    Route(last, "generate", "POST") /\ ~SessPro(session) =>
        LET k == <<usage_key(session, last.req), today>>
            n == IF k \in DOMAIN gens THEN gens[k] ELSE 0
        IN  IF n <= cfg.FREE_DAILY
            THEN /\ last.resp.invoked
                 /\ last.resp.kind = "render"
                 /\ last.resp.target = "index.html"
                 /\ Has(session, "last_card")
            ELSE /\ ~last.resp.invoked
                 /\ last.resp.kind = "redirect"
                 /\ last.resp.target = "upgrade"

\* Request L+1 of the day was redirected, after L served ones.
C5_Witness ==
    /\ Route(last, "generate", "POST")
    /\ ~SessPro(session)
    /\ cfg.FREE_DAILY >= 1
    /\ Get(gens, <<usage_key(session, last.req), today>>, 0) = cfg.FREE_DAILY + 1
    /\ last.resp.target = "upgrade"

\* C8: POST /generate counts a use only when the completion call succeeded;
\* when the call fails and the Network Error card is rendered, the usage map
\* is left as it was.
C8_FailedCallNotCounted ==
    [][/\ Route(last', "generate", "POST")
       /\ last'.resp.invoked
       /\ Has(session', "last_card")
       /\ session'["last_card"].title = "Network Error"
       => USAGE' = USAGE]_vars

\* C6: uses_left returns the sentinel 9999 for a pro session and otherwise
\* the daily limit less today's count of the identity, or 0 if that is
\* negative; it is never negative and leaves the usage map as it was.
C6_UsesLeftValue ==
    [][last'.req.route = "uses_left" =>
           LET used == UsedToday(session, USAGE, last'.req, today)
               r    == last'.resp.remaining
           IN  /\ SessPro(session) => r = 9999
               /\ ~SessPro(session) /\ cfg.FREE_DAILY >= used => r = cfg.FREE_DAILY - used
               /\ ~SessPro(session) /\ cfg.FREE_DAILY < used => r = 0
               /\ r >= 0
               /\ USAGE' = USAGE]_vars

\* uses_left answered 0 for an identity whose count is past the limit.
C6_Witness ==
    /\ last.req.route = "uses_left"
    /\ ~SessPro(session)
    /\ UsedToday(session, USAGE, last.req, today) > cfg.FREE_DAILY
    /\ cfg.FREE_DAILY >= 1
    /\ last.resp.remaining = 0

\* C7: for one identity and one day, uses_left after mark_use is one less
\* than uses_left before it, except that 0 stays 0 and the sentinel of a pro
\* session stays the sentinel.
C7_MarkUseTakesOne ==
    [][last'.req.route = "mark_use" =>
           LET before == uses_left(session, USAGE, last'.req, today, cfg)
               after  == last'.resp.remaining
           IN  /\ SessPro(session) => after = before /\ after = PRO_SENTINEL
               /\ ~SessPro(session) /\ before = 0 => after = 0
               /\ ~SessPro(session) /\ before > 0 => after = before - 1]_vars

\* mark_use took the last use of a signed-in identity.
C7_Witness ==
    /\ last.req.route = "mark_use"
    /\ ~SessPro(session)
    /\ SessEmail(session)
    /\ cfg.FREE_DAILY >= 1
    /\ UsedToday(session, USAGE, last.req, today) = cfg.FREE_DAILY
    /\ last.resp.remaining = 0

\* C9: after /logout, whatever the session held, email, pro, last_card and
\* pending_checkout_id are absent from the session the next request sees, its
\* identity key is derived from the address, and the usage map is unchanged.
C9_LogoutClears ==
    [][Route(last', "logout", "GET") =>
           /\ ~Has(session', "email")
           /\ ~Has(session', "pro")
           /\ ~Has(session', "last_card")
           /\ ~Has(session', "pending_checkout_id")
           /\ \A net \in Nets :
                  usage_key(session', Request("home", "GET", net, "", <<>>, 0, NoFail))[1] = "ip:"
           /\ USAGE' = USAGE]_vars

\* A logout after a signed-in identity had used the service.
C9_Witness ==
    /\ Route(last, "logout", "GET")
    /\ session = EmptyDict
    /\ \E k \in DOMAIN USAGE : k[1][1] = "email:"

\* C10: a POST /login with a non-empty email whose customer the processor
\* reports with the lifetime tag or an active subscription sets the session
\* email to the lowercased email and pro to true; from then on, until a
\* logout, the session stays pro, uses_left is the sentinel 9999 and
\* /generate is not redirected to /upgrade.
C10_LoginRecognisesPro ==
    [][/\ Route(last', "login", "POST")
          /\ Strip(last'.req.text) # <<>>
          /\ GroundLogin(customers, last'.req, cfg, last'.req.fail)
          => /\ Has(session', "email")
             /\ session'["email"] = Lower(Strip(last'.req.text))
             /\ SessPro(session')
       /\ SessPro(session) /\ ~Route(last', "logout", "GET") => SessPro(session')
       /\ SessPro(session') =>
             \A net \in Nets :
                 uses_left(session', USAGE', Request("home", "GET", net, "", <<>>, 0, NoFail),
                           today', cfg') = 9999
       /\ SessPro(session) /\ Route(last', "generate", "POST") =>
             /\ last'.resp.kind = "render"
             /\ last'.resp.invoked
             /\ last'.resp.remaining = 9999]_vars

\* A sign-in with a mixed-case email that the processor recognised, by an
\* identity that had used up its day.
C10_Witness ==
    /\ Route(last, "login", "POST")
    /\ last.req.text = <<" ", "A", " ">>
    /\ last.resp.flash = "welcome_back"
    /\ Get(session, "email", <<>>) = <<"a">>
    /\ SessPro(session)
    /\ cfg.FREE_DAILY >= 1
    /\ Get(USAGE, <<<<"email:", "a">>, today>>, 0) >= cfg.FREE_DAILY

\* C11: a GET /pro for a paid one-time (payment mode) checkout that has a
\* customer and that turns the session's pro flag on has set that customer's
\* lifetime_pro metadata to "true" at the processor, so that a POST /login
\* with the checkout's email from a fresh session is recognised as Pro.
C11_ProSetTagsLifetime ==
    [][/\ Route(last', "pro", "GET")
       /\ ~SessPro(session)
       /\ SessPro(session')
       /\ last'.req.sid \in 1..Len(checkouts)
       /\ checkouts[last'.req.sid].mode = "payment"
       /\ checkouts[last'.req.sid].customer # <<>>
       => LET chk == checkouts[last'.req.sid]
              req == Request("login", "POST", NetDirect, "", chk.email, 0, NoFail)
              out == login(EmptyDict, USAGE', checkouts', customers', req, cfg', NoFail)
          IN  /\ Has(customers', chk.customer)
              /\ Get(customers'[chk.customer].metadata, "lifetime_pro", "") = "true"
              /\ SessPro(out.session)]_vars

\* C12: recognition by email fails closed.  If a processor call made by
\* stripe_email_is_pro raises, or the processor key or the email is empty, or
\* no customer matches the email, the function returns false and the POST
\* /login that called it does not set the session's pro flag.
C12_LoginFailsClosed ==
    [][Route(last', "login", "POST") =>
           LET email == Lower(Strip(last'.req.text))
               fail  == last'.req.fail
           IN  \/ fail # NoFail
               \/ ~cfg.STRIPE_SECRET_KEY
               \/ email = <<>>
               \/ ~Has(customers, email)
               => /\ ~stripe_email_is_pro(email, cfg, customers, fail)
                  /\ Same(session, session', "pro")
                  /\ last'.resp.flash # "welcome_back"]_vars

\* The list of subscriptions raised for an active subscriber, and the
\* sign-in went through without Pro.
C12_Witness ==
    /\ Route(last, "login", "POST")
    /\ last.req.fail = "Subscription.list"
    /\ Has(customers, <<"a">>)
    /\ customers[<<"a">>].subscription = "active"
    /\ Get(session, "email", <<>>) = <<"a">>
    /\ ~SessPro(session)
    /\ last.resp.flash = "signed_in"

CardKeys == {"title", "subtitle", "body", "category", "tags"}

\* The text has an opening brace with a closing brace after it.
HasBraces(text) ==
    \E i, j \in 1..Len(text) : i < j /\ text[i] = LBRACE /\ text[j] = RBRACE

\* The value the last member of key k gives it in span, if there is one.
Supplied(span, k) == \E i \in 2..(Len(span) - 1) : span[i][1] = k

LastValue(span, k) ==
    LET at == {i \in 2..(Len(span) - 1) : span[i][1] = k}
    IN  span[CHOOSE i \in at : \A j \in at : j <= i][2]

\* C14: parse_json_safe returns, for every text, a card with the keys title,
\* subtitle, body, category and tags.  A text without a brace span, or whose
\* span does not decode, gives the Card Error placeholder with category
\* Trigger and tags ["error"]; a span that decodes gives the decoded object
\* with each missing key at its default (category Trigger, tags empty,
\* title, subtitle and body empty) and the supplied keys as supplied.
C14_ParseGivesCard ==
    last.req.route = "parse_json_safe" /\ last.resp.kind = "value" =>
        LET text == last.req.text
            card == session["last_card"]
            span == BraceSpan(StripFences(text))
        IN  /\ CardKeys \subseteq DOMAIN card
            /\ ~HasBraces(text) \/ ~Decodes(span) =>
                   /\ DOMAIN card = CardKeys
                   /\ card["title"] = "Card Error"
                   /\ card["category"] = "Trigger"
                   /\ card["tags"] = <<"error">>
            /\ HasBraces(text) /\ Decodes(span) =>
                   /\ DOMAIN card = CardKeys \cup {span[i][1] : i \in 2..(Len(span) - 1)}
                   /\ \A k \in DOMAIN card \ CardKeys : card[k] = LastValue(span, k)
                   /\ \A k \in CardKeys :
                          IF Supplied(span, k) THEN card[k] = LastValue(span, k)
                          ELSE IF k = "category" THEN card[k] = "Trigger"
                          ELSE IF k = "tags" THEN card[k] = <<>>
                          ELSE card[k] = ""

\* A fenced object with a title only came back with the other keys at their
\* defaults.
C14_Witness ==
    /\ last.req.route = "parse_json_safe"
    /\ last.resp.kind = "value"
    /\ last.req.text = <<FENCE, LBRACE, <<"title", "T">>, RBRACE>>
    /\ session["last_card"] =
           [title |-> "T", subtitle |-> "", body |-> "", category |-> "Trigger", tags |-> <<>>]

\* The requests in flight that called the completion client.
Invoked == Cardinality({w \in DOMAIN inflight : inflight[w].pc \in {"read", "write", "done"}})

\* C15: when /generate requests of one identity that is not pro are handled
\* concurrently on one day, with the gate, the completion call and the read
\* and the write of the counter interleaved freely, the number of requests
\* that call the completion client exceeds the daily limit by at most 1.
C15_OffByAtMostOne ==
    Invoked <= Max(cfg.FREE_DAILY, 0) + 1

\* U1 is U after one use of request req was recorded for session s on day.
MarkEffect(s, U, U1, req, day) ==
    IF SessPro(s) THEN U1 = U
    ELSE LET k == <<usage_key(s, req), day>>
         IN  /\ DOMAIN U1 = DOMAIN U \cup {k}
             /\ U1[k] = (IF k \in DOMAIN U THEN U[k] ELSE 0) + 1
             /\ \A j \in DOMAIN U \ {k} : U1[j] = U[j]

\* The entries of the usage map for one day.
OnDay(U, day) == [k \in {j \in DOMAIN U : j[2] = day} |-> U[k]]

\* C16: mark_use does nothing for a pro session; otherwise it adds exactly 1
\* to the one entry of the usage map for (identity key of the caller, today)
\* and leaves the entries of other identities and other days as they were.
\* So /generate in a pro session never changes the usage map, and the uses
\* left today do not depend on what was recorded on another day.
C16_MarkUseFrame ==
    [][/\ last'.req.route = "mark_use" =>
              MarkEffect(session, USAGE, USAGE', last'.req, today)
       /\ Route(last', "generate", "POST") =>
              /\ SessPro(session) => USAGE' = USAGE
              /\ last'.resp.invoked => MarkEffect(session, USAGE, USAGE', last'.req, today)
       /\ last'.req.route \in {"uses_left", "mark_use"} \/ last'.resp.kind = "render" =>
              last'.resp.remaining =
                  uses_left(session', OnDay(USAGE', today'), last'.req, today', cfg')]_vars

\* The first use of a day was recorded next to the entries of an earlier
\* day, and took one from the full allowance.
C16_Witness ==
    /\ last.req.route = "mark_use"
    /\ session = EmptyDict
    /\ last.req.has_xff = FALSE
    /\ today = MaxDay
    /\ Has(USAGE, <<<<"ip:", "7">>, 1>>)
    /\ Has(USAGE, <<<<"email:", "a">>, 1>>)
    /\ Get(USAGE, <<<<"ip:", "7">>, today>>, 0) = 1
    /\ cfg.FREE_DAILY >= 1
    /\ last.resp.remaining = cfg.FREE_DAILY - 1

\* C17: a checkout id opens Pro at most once per binding.  A GET /pro that
\* succeeds leaves the session without pending_checkout_id; a /buy that
\* succeeds binds the session to the new checkout alone; the stored id
\* changes in no other way; and a GET /pro whose session_id is not the stored
\* id is rejected, also for a checkout that was paid.  So the id of a
\* redeemed checkout, and the id of a checkout that a later /buy replaced,
\* are refused.
C17_OneBindingOneGrant ==
    [][/\ Route(last', "pro", "GET") /\ last'.resp.target = "home" =>
              ~Has(session', "pending_checkout_id")
       /\ Route(last', "buy", "GET") /\ last'.resp.target = "stripe_checkout" =>
              /\ Len(checkouts') = Len(checkouts) + 1
              /\ Has(session', "pending_checkout_id")
              /\ session'["pending_checkout_id"] = Len(checkouts')
       /\ Has(session', "pending_checkout_id") /\ ~Same(session, session', "pending_checkout_id") =>
              Route(last', "buy", "GET") /\ last'.resp.target = "stripe_checkout"
       /\ Route(last', "pro", "GET") /\ Get(session, "pending_checkout_id", 0) # last'.req.sid =>
              /\ last'.resp.kind = "redirect"
              /\ last'.resp.target = "upgrade"
              /\ Same(session, session', "pro")
              /\ customers' = customers]_vars

\* The browser paid its first checkout as A, started a second one, and came
\* back with the id of the first: refused.
C17_Witness ==
    /\ Route(last, "pro", "GET")
    /\ last.req.sid = 1
    /\ Len(checkouts) >= 2
    /\ checkouts[1].payment_status = "paid"
    /\ checkouts[1].email = <<"A">>
    /\ Get(session, "pending_checkout_id", 0) = 2
    /\ ~SessPro(session)
    /\ last.resp.target = "upgrade"

\* C18: the pro flag is monotonic within a session.  Once pro is true it is
\* true after every request other than /logout: a POST /login with an email
\* the processor does not recognise or while the processor errors, a POST
\* /upgrade with a wrong code and a rejected or failed GET /pro leave it true.
C18_ProMonotonic ==
    [][SessPro(session) /\ ~Route(last', "logout", "GET") =>
           Has(session', "pro") /\ session'["pro"] = TRUE]_vars

\* A pro session signed in while the search for the customer raised, and
\* is still pro.
C18_Witness ==
    /\ Route(last, "login", "POST")
    /\ last.req.fail = "Customer.search"
    /\ last.resp.flash = "signed_in"
    /\ SessPro(session)

\* The calls of the completion client served today to sessions that are not
\* pro: each of them added one to an entry of today (line 215).
ServedToday == SumOver(USAGE, {k \in DOMAIN USAGE : k[2] = today})

\* C19: handled one at a time, the requests of a browser that never becomes
\* pro, all from one address, are served at most the daily limit of calls of
\* the completion client per calendar day, whatever /login and /logout it
\* issues in between.
C19_OneQuotaPerBrowser ==
    ~SessPro(session) /\ ~granted => ServedToday <= cfg.FREE_DAILY

====
